---- MODULE Spec2Model ----
(***************************************************************************)
(* Model of the responsa archive browser script (src/script.js): the       *)
(* module-level state (currentLanguage, allResponsa, currentPage,          *)
(* currentResponsa), the DOM elements the handlers read and write, and one *)
(* action per handler.  Strings whose contents the code inspects are       *)
(* sequences of one-character strings; strings that are only compared for  *)
(* equality (category ids, display values) are TLA+ strings.               *)
(***************************************************************************)
EXTENDS Integers, Sequences, FiniteSets, TLC

VARIABLES
    currentLanguage,   \* 'he' | 'en'
    allResponsa,       \* the loaded list
    currentPage,       \* 1-based page number
    currentResponsa,   \* the current filtered list
    aliased,           \* currentResponsa is the very array object allResponsa
    loadState,         \* position of the async loadResponsa: pending | loaded | failed
    searchInput,       \* #searchInput.value
    categoryFilter,    \* #categoryFilter.value
    yearFilter,        \* #yearFilter.value
    yearOptions,       \* option values of #yearFilter
    grid,              \* cards in #responsaGrid
    gridDisplay,       \* #responsaGrid.style.display
    emptyState,        \* #emptyState.style.display
    pagination,        \* #paginationControls
    doc,               \* documentElement.lang, body.dir, search placeholder
    stats,             \* #totalResponsa / #latestYear text
    hist,              \* the last handler that ran (and the toggle before it)
    sanText,           \* sanitizeSummary: argument text
    sanTitle,          \* sanitizeSummary: argument titleText
    sanResult,         \* sanitizeSummary: returned value
    sanPc              \* sanitizeSummary: "call" before, "done" after

browserVars == <<currentLanguage, allResponsa, currentPage, currentResponsa, aliased,
                 loadState, searchInput, categoryFilter, yearFilter, yearOptions,
                 grid, gridDisplay, emptyState, pagination, doc, stats, hist>>
sanVars == <<sanText, sanTitle, sanResult, sanPc>>
vars == <<browserVars, sanVars>>

-----------------------------------------------------------------------------
(* Bounds.  The page size of the source is 60 (src/script.js:9); every      *)
(* use of it in the code is arithmetic in ITEMS_PER_PAGE, so the model      *)
(* runs it scaled down, with lists long enough to span several pages.       *)
ITEMS_PER_PAGE == 2
MaxLen == 3
MaxPageArg == 3
MaxTextLen == 5

-----------------------------------------------------------------------------
(* String primitives of the JavaScript runtime, on sequences of characters *)

Lower(c) == IF c = "A" THEN "a" ELSE IF c = "B" THEN "b" ELSE c

toLowerCase(s) == [i \in 1..Len(s) |-> Lower(s[i])]

includes(s, t) ==
    \E i \in 0..(Len(s) - Len(t)) : SubSeq(s, i + 1, i + Len(t)) = t

DigitChar(d) == <<"0", "1", "2", "3", "4", "5", "6", "7", "8", "9">>[d + 1]

RECURSIVE toString(_)
toString(n) ==
    IF n < 10 THEN <<DigitChar(n)>>
    ELSE toString(n \div 10) \o <<DigitChar(n % 10)>>

\* Math.floor(n / d) + 1 in place of Math.ceil(n / d)
Mathceil_floorPlusOne(n, d) == (n \div d) + 1

Mathceil(n, d) == IF n % d = 0 THEN n \div d ELSE (n \div d) + 1

slice(s, start, end) ==
    SubSeq(s, start + 1, IF end < Len(s) THEN end ELSE Len(s))

Mathmax(S) == CHOOSE m \in S : \A x \in S : x <= m

-----------------------------------------------------------------------------
(* Document records of responsa.json                                        *)

Rec(n, c, y, the, ten, she, sen) ==
    [number |-> n, category |-> c, year |-> y,
     title_he |-> the, title_en |-> ten, summary_he |-> she, summary_en |-> sen]

\* every disjunct of the search predicate decides one of the records alone
R1 == Rec(1, "civil", 2024, <<"a", "b">>, <<"B">>, <<>>, <<>>)
R2 == Rec(2, "other", 2024, <<"b">>, <<"A", "B">>, <<>>, <<"b">>)
R3 == Rec(12, "civil", 2025, <<"b">>, <<"B">>, <<"#", "\n", "a", "b">>, <<>>)
R4 == Rec(3, "other", 2025, <<"b">>, <<"B">>, <<"b">>, <<"B", "1">>)
Universe == {R1, R2, R3, R4}

\* the lists responsa.json can hold: record numbers are unique
Datasets ==
    UNION {{s \in [1..n -> Universe] : \A i, j \in 1..n : s[i] = s[j] => i = j}
           : n \in 0..MaxLen}

all == <<"a", "l", "l">>
SearchInputs == {<<>>, <<"A", "b">>, <<"1">>}
CategoryOptions == {"all", "civil", "other"}
PageArgs == 0..MaxPageArg

-----------------------------------------------------------------------------
(* sanitizeSummary and the string operations it uses                        *)

IsSpace(c) == c \in {" ", "\n", "\r", "\t"}

RECURSIVE trimStart(_)
trimStart(s) ==
    IF s # <<>> /\ IsSpace(Head(s)) THEN trimStart(Tail(s)) ELSE s

RECURSIVE trimEnd(_)
trimEnd(s) ==
    IF s # <<>> /\ IsSpace(s[Len(s)]) THEN trimEnd(SubSeq(s, 1, Len(s) - 1)) ELSE s

trim(s) == trimEnd(trimStart(s))

\* String.prototype.split(/\r?\n/): i is the next position, cur the line so far
RECURSIVE splitFrom(_, _, _, _)
splitFrom(text, i, cur, acc) ==
    IF i > Len(text) THEN Append(acc, cur)
    ELSE IF text[i] = "\n" THEN splitFrom(text, i + 1, <<>>, Append(acc, cur))
    ELSE IF text[i] = "\r" /\ i < Len(text) /\ text[i + 1] = "\n"
         THEN splitFrom(text, i + 2, <<>>, Append(acc, cur))
    ELSE splitFrom(text, i + 1, Append(cur, text[i]), acc)

split(text) == splitFrom(text, 1, <<>>, <<>>)

\* String.prototype.indexOf: 0-based index of the first occurrence, or -1
indexOf(s, t) ==
    LET hits == {i \in 0..(Len(s) - Len(t)) : SubSeq(s, i + 1, i + Len(t)) = t}
    IN  IF hits = {} THEN -1 ELSE CHOOSE i \in hits : \A j \in hits : i <= j

startsWith(s, t) == Len(t) <= Len(s) /\ SubSeq(s, 1, Len(t)) = t

\* the position at which a line is cut: its first '##' (or '###'), else its end
cutIndex(line) ==
    LET idx2 == indexOf(line, <<"#", "#">>)
        idx3 == indexOf(line, <<"#", "#", "#">>)
        cut2 == IF idx2 # -1 /\ idx2 < Len(line) THEN idx2 ELSE Len(line)
    IN  IF idx3 # -1 /\ idx3 < cut2 THEN idx3 ELSE cut2

\* line.substring(0, cutIndex).trim() when the cut falls inside the line
cutLine(line, cut) == IF cut < Len(line) THEN trim(SubSeq(line, 1, cut)) ELSE line

\* processedLines.push(line) unless the line is empty
pushLine(line, processedLines) ==
    IF line = <<>> THEN processedLines ELSE Append(processedLines, line)

\* the loop body on the trimmed line, without the cut at the first '##'
processTrimmed_noCut(line, processedLines) ==
    IF line = <<>> \/ Head(line) = "#" THEN processedLines
    ELSE pushLine(line, processedLines)

\* the loop body on the trimmed line
processTrimmed(line, processedLines) ==
    IF line = <<>> \/ Head(line) = "#" THEN processedLines
    ELSE pushLine(cutLine(line, cutIndex(line)), processedLines)

\* body of the for loop of sanitizeSummary for one line: the processedLines after it
processLine(raw, processedLines) == processTrimmed(trim(raw), processedLines)

RECURSIVE processFrom(_, _, _)
processFrom(lines, i, processedLines) ==
    IF i > Len(lines) THEN processedLines
    ELSE processFrom(lines, i + 1, processLine(lines[i], processedLines))

\* the choice among the processed lines at the end of sanitizeSummary
chooseSummary(processedLines, titleText) ==
    IF processedLines = <<>> THEN <<>>
    ELSE LET summary == processedLines[1]
             titleNorm == toLowerCase(trim(titleText))
             summaryNorm == toLowerCase(summary)
         IN  IF titleText # <<>>
                /\ (summaryNorm = titleNorm \/ startsWith(summaryNorm, titleNorm))
             THEN IF Len(processedLines) > 1 THEN processedLines[2] ELSE <<>>
             ELSE summary

sanitizeSummary(text, titleText) ==
    IF text = <<>> THEN <<>>
    ELSE chooseSummary(processFrom(split(text), 1, <<>>), titleText)

-----------------------------------------------------------------------------
(* Rendering                                                                *)

\* summaryText: the sanitized summary, or the raw one when that is empty
orRawSummary(sanitized, rawSummary) ==
    IF sanitized = <<>> THEN rawSummary ELSE sanitized

cardOf(item, titleText, rawSummary) ==
    [item |-> item,
     titleText |-> titleText,
     summaryText |-> orRawSummary(sanitizeSummary(rawSummary, titleText), rawSummary)]

createResponsaCard(item, lang) ==
    IF lang = "he" THEN cardOf(item, item.title_he, item.summary_he)
    ELSE cardOf(item, item.title_en, item.summary_en)

\* #paginationControls after renderPaginationControls(totalItems)
renderPaginationControls(totalItems, page, lang) ==
    LET totalPages == Mathceil(totalItems, ITEMS_PER_PAGE)
    IN  IF totalPages <= 1
        THEN [exists |-> TRUE, display |-> "none", controls |-> <<>>]
        ELSE [exists |-> TRUE, display |-> "flex",
              controls |-> <<[page |-> page, totalPages |-> totalPages,
                              prevDisabled |-> (page = 1),
                              nextDisabled |-> (page = totalPages),
                              lang |-> lang]>>]

\* the cards of pageItems.forEach(...)
cardsOf(pageItems, lang) ==
    [i \in 1..Len(pageItems) |-> createResponsaCard(pageItems[i], lang)]

\* the DOM after displayResponsa(responsa) with the given page and language
displayResponsa(responsa, page, lang, pag) ==
    IF Len(responsa) = 0
    THEN [grid |-> <<>>, gridDisplay |-> "none", emptyState |-> "block",
          pagination |-> IF pag.exists THEN [pag EXCEPT !.display = "none"] ELSE pag]
    ELSE [grid |-> cardsOf(slice(responsa, (page - 1) * ITEMS_PER_PAGE,
                                 (page - 1) * ITEMS_PER_PAGE + ITEMS_PER_PAGE), lang),
          gridDisplay |-> "grid", emptyState |-> "none",
          pagination |-> renderPaginationControls(Len(responsa), page, lang)]

\* the DOM writes of displayResponsa
Show(d) ==
    /\ grid' = d.grid
    /\ gridDisplay' = d.gridDisplay
    /\ emptyState' = d.emptyState
    /\ pagination' = d.pagination

Render(responsa, page, lang) == Show(displayResponsa(responsa, page, lang, pagination))

\* the search placeholder written by updateLanguage()
updateLanguage(lang) == IF lang = "he" THEN "he:search" ELSE "Search..."

-----------------------------------------------------------------------------
(* Filtering                                                                *)

\* "Apply search" in searchResponsa
applySearch(list, searchTerm) ==
    LET bySearch(item) ==
            \/ includes(toLowerCase(item.title_he), searchTerm)
            \/ includes(toLowerCase(item.title_en), searchTerm)
            \/ includes(toLowerCase(item.summary_he), searchTerm)
            \/ includes(toLowerCase(item.summary_en), searchTerm)
            \/ includes(toString(item.number), searchTerm)
    IN  IF searchTerm # <<>> THEN SelectSeq(list, bySearch) ELSE list

\* the search step of getFilteredResponsa
applySearchOfGetFiltered(list, searchTerm) ==
    LET bySearch(item) ==
            \/ includes(toLowerCase(item.title_he), searchTerm)
            \/ includes(toLowerCase(item.title_en), searchTerm)
            \/ includes(toLowerCase(item.summary_he), searchTerm)
            \/ includes(toLowerCase(item.summary_en), searchTerm)
    IN  IF searchTerm # <<>> THEN SelectSeq(list, bySearch) ELSE list

\* "Apply category filter"
applyCategory(list, category) ==
    LET byCategory(item) == item.category = category
    IN  IF category # "all" THEN SelectSeq(list, byCategory) ELSE list

\* "Apply year filter"
applyYear(list, year) ==
    LET byYear(item) == toString(item.year) = year
    IN  IF year # all THEN SelectSeq(list, byYear) ELSE list

\* the filter chain without the match on the record number
searchFilter_noNumber(list, searchInputValue, category, year) ==
    applyYear(applyCategory(applySearchOfGetFiltered(list, toLowerCase(searchInputValue)),
                            category), year)

\* the filter chain of searchResponsa
searchFilter(list, searchInputValue, category, year) ==
    applyYear(applyCategory(applySearch(list, toLowerCase(searchInputValue)), category), year)

getFilteredResponsa ==
    applyYear(applyCategory(applySearchOfGetFiltered(allResponsa, toLowerCase(searchInput)),
                            categoryFilter), yearFilter)

\* the filter chain returns allResponsa itself when no filter() call ran
noFilterRan(searchInputValue, category, year) ==
    toLowerCase(searchInputValue) = <<>> /\ category = "all" /\ year = all

-----------------------------------------------------------------------------
(* Handlers                                                                 *)

\* bookkeeping: the handler that ran last, its argument, and the page and
\* language it started from; a toggle keeps the toggle right before it
Step(op, arg) ==
    [op |-> op, arg |-> arg, page |-> currentPage, lang |-> currentLanguage]

Record(op, arg) ==
    hist' = IF op = "toggleLanguage" /\ hist # <<>> /\ hist[Len(hist)].op = "toggleLanguage"
            THEN <<hist[Len(hist)], Step(op, arg)>>
            ELSE <<Step(op, arg)>>

last == hist[Len(hist)]

RECURSIVE sortDescending(_)
sortDescending(S) ==
    IF S = {} THEN <<>>
    ELSE LET m == Mathmax(S) IN <<m>> \o sortDescending(S \ {m})

\* the option values of #yearFilter after populateYearFilter()
populateYearFilter(options, list) ==
    LET years == sortDescending({list[i].year : i \in 1..Len(list)})
    IN  options \o [i \in 1..Len(years) |-> toString(years[i])]

\* the statistics elements after updateStatistics()
updateStatistics(old, list) ==
    [totalResponsa |-> <<Len(list)>>,
     latestYear |-> IF Len(list) > 0
                    THEN <<Mathmax({list[i].year : i \in 1..Len(list)})>>
                    ELSE old.latestYear]

\* loadResponsa, from the fetch resolving to the end of the try block
LoadSuccess(data) ==
    /\ loadState = "pending"
    /\ loadState' = "loaded"
    /\ allResponsa' = data
    /\ currentResponsa' = data
    /\ aliased' = TRUE
    /\ yearOptions' = populateYearFilter(yearOptions, data)
    /\ currentPage' = 1
    /\ Render(data, 1, currentLanguage)
    /\ stats' = updateStatistics(stats, data)
    /\ Record("loadResponsa", 0)
    /\ UNCHANGED <<currentLanguage, searchInput, categoryFilter, yearFilter, doc>>

\* a failure that strikes only after the parsed list has been assigned
LoadFail_afterAssign ==
    /\ loadState = "pending"
    /\ loadState' = "failed"
    /\ \E data \in Datasets : allResponsa' = data /\ currentResponsa' = data
    /\ emptyState' = "block"
    /\ Record("loadResponsa", 0)
    /\ UNCHANGED <<currentLanguage, currentPage, aliased,
                   searchInput, categoryFilter, yearFilter, yearOptions, grid,
                   gridDisplay, pagination, doc, stats>>

\* loadResponsa when fetch() or response.json() rejects: the catch block
LoadFail ==
    /\ loadState = "pending"
    /\ loadState' = "failed"
    /\ emptyState' = "block"
    /\ Record("loadResponsa", 0)
    /\ UNCHANGED <<currentLanguage, allResponsa, currentPage, currentResponsa, aliased,
                   searchInput, categoryFilter, yearFilter, yearOptions, grid,
                   gridDisplay, pagination, doc, stats>>

\* searchResponsa narrowing the loaded list itself
searchResponsa_narrowsAll(s, c, y) ==
    /\ searchInput' = s
    /\ categoryFilter' = c
    /\ yearFilter' = y
    /\ allResponsa' = searchFilter(allResponsa, s, c, y)
    /\ currentResponsa' = allResponsa'
    /\ aliased' = TRUE
    /\ currentPage' = 1
    /\ Render(currentResponsa', 1, currentLanguage)
    /\ Record("searchResponsa", 0)
    /\ UNCHANGED <<currentLanguage, loadState, yearOptions, doc, stats>>

\* searchResponsa without the reset of currentPage
searchResponsa_keepsPage(s, c, y) ==
    /\ searchInput' = s
    /\ categoryFilter' = c
    /\ yearFilter' = y
    /\ currentResponsa' = searchFilter(allResponsa, s, c, y)
    /\ aliased' = noFilterRan(s, c, y)
    /\ Render(currentResponsa', currentPage, currentLanguage)
    /\ Record("searchResponsa", 0)
    /\ UNCHANGED <<currentLanguage, allResponsa, currentPage, loadState, yearOptions,
                   doc, stats>>

\* searchResponsa() with the inputs holding s, c and y
searchResponsa(s, c, y) ==
    /\ searchInput' = s
    /\ categoryFilter' = c
    /\ yearFilter' = y
    /\ currentResponsa' = searchFilter(allResponsa, s, c, y)
    /\ aliased' = noFilterRan(s, c, y)
    /\ currentPage' = 1
    /\ Render(currentResponsa', 1, currentLanguage)
    /\ Record("searchResponsa", 0)
    /\ UNCHANGED <<currentLanguage, allResponsa, loadState, yearOptions, doc, stats>>

filterResponsa(s, c, y) == searchResponsa(s, c, y)

\* toggleLanguage going back to the first page
toggleLanguage_resetsPage ==
    /\ currentLanguage' = IF currentLanguage = "he" THEN "en" ELSE "he"
    /\ doc' = [lang |-> currentLanguage',
               dir |-> IF currentLanguage' = "he" THEN "rtl" ELSE "ltr",
               placeholder |-> updateLanguage(currentLanguage')]
    /\ currentResponsa' = getFilteredResponsa
    /\ aliased' = noFilterRan(searchInput, categoryFilter, yearFilter)
    /\ currentPage' = 1
    /\ Render(currentResponsa', 1, currentLanguage')
    /\ Record("toggleLanguage", 0)
    /\ UNCHANGED <<allResponsa, loadState, searchInput, categoryFilter,
                   yearFilter, yearOptions, stats>>

toggleLanguage ==
    /\ currentLanguage' = IF currentLanguage = "he" THEN "en" ELSE "he"
    /\ doc' = [lang |-> currentLanguage',
               dir |-> IF currentLanguage' = "he" THEN "rtl" ELSE "ltr",
               placeholder |-> updateLanguage(currentLanguage')]
    /\ currentResponsa' = getFilteredResponsa
    /\ aliased' = noFilterRan(searchInput, categoryFilter, yearFilter)
    /\ Render(currentResponsa', currentPage, currentLanguage')
    /\ Record("toggleLanguage", 0)
    /\ UNCHANGED <<allResponsa, currentPage, loadState, searchInput, categoryFilter,
                   yearFilter, yearOptions, stats>>

\* changePage checking the lower bound only
changePage_noUpperBound(page) ==
    /\ IF page < 1
       THEN UNCHANGED <<currentPage, grid, gridDisplay, emptyState, pagination>>
       ELSE /\ currentPage' = page
            /\ Render(currentResponsa, page, currentLanguage)
    /\ Record("changePage", page)
    /\ UNCHANGED <<currentLanguage, allResponsa, currentResponsa, aliased, loadState,
                   searchInput, categoryFilter, yearFilter, yearOptions, doc, stats>>

changePage(page) ==
    LET totalPages == Mathceil(Len(currentResponsa), ITEMS_PER_PAGE)
    IN  /\ IF page < 1 \/ page > totalPages
           THEN UNCHANGED <<currentPage, grid, gridDisplay, emptyState, pagination>>
           ELSE /\ currentPage' = page
                /\ Render(currentResponsa, page, currentLanguage)
        /\ Record("changePage", page)
        /\ UNCHANGED <<currentLanguage, allResponsa, currentResponsa, aliased, loadState,
                       searchInput, categoryFilter, yearFilter, yearOptions, doc, stats>>

\* the buttons of renderPaginationControls: clickable while shown and enabled
controlsShown == pagination.display = "flex" /\ pagination.controls # <<>>

prevButtonClick ==
    /\ controlsShown
    /\ ~pagination.controls[1].prevDisabled
    /\ currentPage > 1
    /\ changePage(currentPage - 1)

nextButtonClick ==
    /\ controlsShown
    /\ ~pagination.controls[1].nextDisabled
    /\ currentPage < pagination.controls[1].totalPages
    /\ changePage(currentPage + 1)

-----------------------------------------------------------------------------
(* The browser session: the state once the DOMContentLoaded handler has     *)
(* started loadResponsa (its fetch is in flight) and run updateLanguage     *)

InitBrowser ==
    /\ currentLanguage = "he"
    /\ allResponsa = <<>>
    /\ currentPage = 1
    /\ currentResponsa = <<>>
    /\ aliased = FALSE
    /\ loadState = "pending"
    /\ searchInput = <<>>
    /\ categoryFilter = "all"
    /\ yearFilter = all
    /\ yearOptions = <<all>>
    /\ grid = <<>>
    /\ gridDisplay = "unset"
    /\ emptyState = "unset"
    /\ pagination = [exists |-> FALSE, display |-> "unset", controls |-> <<>>]
    /\ doc = [lang |-> "he", dir |-> "rtl", placeholder |-> updateLanguage("he")]
    /\ stats = [totalResponsa |-> <<>>, latestYear |-> <<>>]
    /\ hist = <<>>

Init ==
    /\ InitBrowser
    /\ sanText = <<>> /\ sanTitle = <<>> /\ sanResult = <<>> /\ sanPc = "idle"

YearChoices == {yearOptions[i] : i \in 1..Len(yearOptions)}

\* The user edits one input at a time and the handler then reads all three:
\* the search box runs searchResponsa, the two selects run filterResponsa.
\* changePage is reachable with any argument; the two buttons call it with
\* the neighbouring pages.
Next ==
    \/ \E data \in Datasets : LoadSuccess(data) /\ UNCHANGED sanVars
    \/ LoadFail /\ UNCHANGED sanVars
    \/ \E s \in SearchInputs :
          searchResponsa(s, categoryFilter, yearFilter) /\ UNCHANGED sanVars
    \/ \E c \in CategoryOptions :
          filterResponsa(searchInput, c, yearFilter) /\ UNCHANGED sanVars
    \/ \E y \in YearChoices :
          filterResponsa(searchInput, categoryFilter, y) /\ UNCHANGED sanVars
    \/ toggleLanguage /\ UNCHANGED sanVars
    \/ \E page \in PageArgs : changePage(page) /\ UNCHANGED sanVars
    \/ prevButtonClick /\ UNCHANGED sanVars
    \/ nextButtonClick /\ UNCHANGED sanVars

Spec == Init /\ [][Next]_vars

-----------------------------------------------------------------------------
(* sanitizeSummary as a function of its two arguments                       *)

TextAlphabet == {"#", " ", "\n", "a", "A"}
Texts == UNION {[1..n -> TextAlphabet] : n \in 0..MaxTextLen}
Titles == {<<>>, <<"a">>, <<"A">>, <<" ", "a">>, <<"a", "A">>, <<"a", " ">>}

InitSanitize ==
    /\ InitBrowser
    /\ sanText \in Texts
    /\ sanTitle \in Titles
    /\ sanResult = <<>>
    /\ sanPc = "call"

SanitizeCall ==
    /\ sanPc = "call"
    /\ sanResult' = sanitizeSummary(sanText, sanTitle)
    /\ sanPc' = "done"
    /\ UNCHANGED <<sanText, sanTitle, browserVars>>

NextSanitize == SanitizeCall

SpecSanitize == InitSanitize /\ [][NextSanitize]_vars

-----------------------------------------------------------------------------
(* Properties                                                               *)

lastOp == IF hist = <<>> THEN "none" ELSE last.op

items(cards) == [i \in 1..Len(cards) |-> cards[i].item]

\* the least k with k * p >= n
Ceiling(n, p) == CHOOSE k \in 0..n : k * p >= n /\ (k = 0 \/ (k - 1) * p < n)

\* the conjunction of the active predicates, for one record
Satisfies(item, s, c, y) ==
    /\ \/ s = <<>>
       \/ includes(toLowerCase(item.title_he), toLowerCase(s))
       \/ includes(toLowerCase(item.title_en), toLowerCase(s))
       \/ includes(toLowerCase(item.summary_he), toLowerCase(s))
       \/ includes(toLowerCase(item.summary_en), toLowerCase(s))
       \/ includes(toString(item.number), toLowerCase(s))
    /\ c = "all" \/ item.category = c
    /\ y = all \/ toString(item.year) = y

\* the records of list that satisfy the predicates, in the order of list
Matching(list, s, c, y) ==
    LET ok(item) == Satisfies(item, s, c, y) IN SelectSeq(list, ok)

\* C1: right after searchResponsa (or filterResponsa) has run with the inputs
\* s, c, y, currentResponsa is exactly the records of allResponsa, in their
\* order, that satisfy the search, category and year predicates together;
\* and no card ever shows a record that is not in allResponsa.
C1_SearchShowsExactlyTheMatches ==
    /\ lastOp = "searchResponsa" =>
          currentResponsa = Matching(allResponsa, searchInput, categoryFilter, yearFilter)
    /\ \A i \in 1..Len(grid) : \E j \in 1..Len(allResponsa) : grid[i].item = allResponsa[j]

C1_Witness ==
    /\ lastOp = "searchResponsa"
    /\ searchInput # <<>> /\ categoryFilter # "all" /\ yearFilter # all
    /\ currentResponsa # <<>>
    /\ Len(currentResponsa) < Len(allResponsa)
    /\ grid # <<>>

\* the number of cards page p of a list of n items must hold
CardsOnPage(n, p) ==
    IF p < Ceiling(n, ITEMS_PER_PAGE) THEN ITEMS_PER_PAGE
    ELSE IF n % ITEMS_PER_PAGE = 0 THEN ITEMS_PER_PAGE ELSE n % ITEMS_PER_PAGE

\* C2: for a filtered list of N >= 1 items the page count shown by the
\* pagination controls and enforced by changePage is ceil(N / ITEMS_PER_PAGE);
\* every page before the last renders ITEMS_PER_PAGE cards and the last one
\* N mod ITEMS_PER_PAGE cards, or ITEMS_PER_PAGE when that is 0.
C2_PageCountAndPageSizes ==
    LET N == Len(currentResponsa)
        pages == Ceiling(N, ITEMS_PER_PAGE)
    IN  N >= 1 =>
          /\ pagination.display = (IF pages > 1 THEN "flex" ELSE "none")
          /\ pages > 1 => pagination.controls[1].totalPages = pages
          /\ lastOp = "changePage" =>
                currentPage = (IF last.arg \in 1..pages THEN last.arg ELSE last.page)
          /\ \A p \in 1..pages :
                Len(displayResponsa(currentResponsa, p, currentLanguage, pagination).grid)
                   = CardsOnPage(N, p)
          /\ currentPage \in 1..pages => Len(grid) = CardsOnPage(N, currentPage)

C2_Witness ==
    /\ Len(currentResponsa) > ITEMS_PER_PAGE
    /\ Len(currentResponsa) % ITEMS_PER_PAGE # 0
    /\ lastOp = "changePage"
    /\ currentPage = Ceiling(Len(currentResponsa), ITEMS_PER_PAGE)
    /\ Len(grid) = Len(currentResponsa) % ITEMS_PER_PAGE

\* the records page p of list must show
RecordsOnPage(list, p) ==
    LET first == (p - 1) * ITEMS_PER_PAGE
        count == IF Len(list) - first > ITEMS_PER_PAGE THEN ITEMS_PER_PAGE
                 ELSE IF Len(list) - first < 0 THEN 0 ELSE Len(list) - first
    IN  [i \in 1..count |-> list[first + i]]

PageCount == Ceiling(Len(currentResponsa), ITEMS_PER_PAGE)

\* C4 as stated: once the list is loaded, the records in the grid are
\* determined by the list and the current search term, category, year and
\* page alone.  (A search followed by a page change reaches every such
\* combination and shows that page of the matching records, so this is the
\* only function the grid can be.)
C4_Original ==
    loadState = "loaded" =>
        items(grid) = RecordsOnPage(Matching(allResponsa, searchInput, categoryFilter,
                                             yearFilter), currentPage)

\* C5: when loadResponsa fails, the empty state is shown, allResponsa and
\* currentResponsa stay empty and currentPage stays 1, and whatever handler
\* runs afterwards the grid holds no card.
C5_FailedLoadShowsNothing ==
    loadState = "failed" =>
        /\ emptyState = "block"
        /\ allResponsa = <<>>
        /\ currentResponsa = <<>>
        /\ currentPage = 1
        /\ grid = <<>>

C5_Witness ==
    /\ loadState = "failed"
    /\ searchInput # <<>>
    /\ categoryFilter # "all"
    /\ lastOp = "toggleLanguage"

\* C6: once loadResponsa has set allResponsa, no handler changes its
\* contents or order.
C6_AllResponsaReadOnly ==
    [][loadState = "loaded" => allResponsa' = allResponsa]_vars

C6_Witness ==
    /\ loadState = "loaded"
    /\ Len(allResponsa) > 1
    /\ aliased
    /\ lastOp = "toggleLanguage"
    /\ searchInput = <<>>
    /\ currentPage > 1

\* C7: right after searchResponsa / filterResponsa, and right after a
\* successful load, currentPage is 1 and the grid shows the first page of the
\* new result set, whatever the page was before.
C7_SearchAndLoadResetPage ==
    (lastOp = "searchResponsa" \/ (lastOp = "loadResponsa" /\ loadState = "loaded")) =>
        /\ currentPage = 1
        /\ items(grid) = RecordsOnPage(currentResponsa, 1)
        /\ PageCount > 1 => pagination.controls[1].page = 1

C7_Witness ==
    /\ lastOp = "searchResponsa"
    /\ last.page > 1
    /\ Len(currentResponsa) > ITEMS_PER_PAGE
    /\ currentPage = 1

\* C8: changePage(page) leaves currentPage, currentResponsa and the grid as
\* they are when page < 1 or page > ceil(len(currentResponsa)/ITEMS_PER_PAGE);
\* otherwise it sets currentPage to page, leaves currentResponsa alone and
\* renders that page.
C8_ChangePageBounds ==
    [][\A page \in (PageArgs \cup {currentPage - 1, currentPage + 1}) :
          changePage(page) =>
             IF page < 1 \/ page > PageCount
             THEN UNCHANGED <<currentPage, currentResponsa, grid>>
             ELSE /\ currentPage' = page
                  /\ currentResponsa' = currentResponsa
                  /\ items(grid') = RecordsOnPage(currentResponsa, page)]_vars

C8_Witness ==
    /\ lastOp = "changePage"
    /\ last.arg > PageCount
    /\ PageCount > 1
    /\ currentPage = last.page
    /\ items(grid) = RecordsOnPage(currentResponsa, currentPage)

\* C9 as stated: currentPage is always a page of the current filtered list,
\* 1 <= currentPage <= max(1, ceil(len(currentResponsa)/ITEMS_PER_PAGE)), and
\* a non-empty filtered list always shows at least one card.
C9_Original ==
    /\ currentPage >= 1
    /\ currentPage <= (IF PageCount > 1 THEN PageCount ELSE 1)
    /\ currentResponsa # <<>> => grid # <<>>

\* C10: toggleLanguage leaves currentPage as it was and switches
\* currentLanguage between 'he' and 'en'; after two toggles in a row the
\* language and the page are those before the first.
C10_ToggleKeepsPageAndFlips ==
    lastOp = "toggleLanguage" =>
        /\ currentPage = last.page
        /\ {currentLanguage, last.lang} = {"he", "en"}
        /\ doc.lang = currentLanguage
        /\ Len(hist) = 2 =>
              /\ currentLanguage = hist[1].lang
              /\ currentPage = hist[1].page

C10_Witness ==
    /\ Len(hist) = 2
    /\ lastOp = "toggleLanguage"
    /\ currentPage > 1
    /\ currentLanguage = "en"

\* C11 as stated: the list toggleLanguage stores, recomputed through
\* getFilteredResponsa, is the list searchResponsa computes for the same
\* search term, category and year over the same allResponsa, so a toggle
\* leaves the records of currentResponsa as a search with these inputs has
\* them.
C11_Original ==
    lastOp = "toggleLanguage" =>
        currentResponsa = searchFilter(allResponsa, searchInput, categoryFilter, yearFilter)

-----------------------------------------------------------------------------
(* sanitizeSummary, stated on the text rather than by the loop              *)

Least(S) == CHOOSE i \in S : \A j \in S : i <= j
Greatest(S) == CHOOSE i \in S : \A j \in S : i >= j

\* s without its leading and trailing white space
Stripped(s) ==
    LET ns == {i \in 1..Len(s) : ~IsSpace(s[i])}
    IN  IF ns = {} THEN <<>> ELSE SubSeq(s, Least(ns), Greatest(ns))

\* the lines of text: the stretches between consecutive newlines
LinesOf(text) ==
    LET nl == {i \in 1..Len(text) : text[i] = "\n"}
        brk(k) == IF k = 0 THEN 0
                  ELSE IF k = Cardinality(nl) + 1 THEN Len(text) + 1
                  ELSE CHOOSE i \in nl : Cardinality({j \in nl : j < i}) = k - 1
    IN  [k \in 1..(Cardinality(nl) + 1) |-> SubSeq(text, brk(k - 1) + 1, brk(k) - 1)]

\* s up to its first "##"
BeforeMarker(s) ==
    LET m == {i \in 1..(Len(s) - 1) : s[i] = "#" /\ s[i + 1] = "#"}
    IN  IF m = {} THEN s ELSE SubSeq(s, 1, Least(m) - 1)

IsPrefix(t, s) == Len(t) <= Len(s) /\ \A i \in 1..Len(t) : s[i] = t[i]

NonEmpty(s) == s # <<>>

\* the trimmed lines that are neither blank nor headings
RemainingLines(text) ==
    LET ls == LinesOf(text)
        keep(l) == l # <<>> /\ l[1] # "#"
    IN  SelectSeq([k \in 1..Len(ls) |-> Stripped(ls[k])], keep)

\* the remaining lines, each cut at its first "##" and trimmed again
ProcessedLines(text) ==
    LET ls == RemainingLines(text)
    IN  SelectSeq([k \in 1..Len(ls) |-> Stripped(BeforeMarker(ls[k]))], NonEmpty)

FirstUnless(ls, duplicate) ==
    IF ls = <<>> THEN <<>>
    ELSE IF duplicate THEN (IF Len(ls) > 1 THEN ls[2] ELSE <<>>)
    ELSE ls[1]

\* C3 as stated: heading lines are removed and the first remaining line is
\* returned, the next one when the first duplicates the title, and the empty
\* string when no line remains.  (Read in the claim's favour: lines are
\* trimmed, blank lines do not count, and a duplicate is compared trimmed and
\* without regard to case.)
C3_Original ==
    sanPc = "done" =>
        LET ls == RemainingLines(sanText)
        IN  sanResult = FirstUnless(ls, ls # <<>> /\ sanTitle # <<>>
                                        /\ toLowerCase(ls[1]) = toLowerCase(Stripped(sanTitle)))

\* C3 (amended): blank lines and lines beginning with '#' are dropped, each
\* remaining line is cut at its first "##" and trimmed; the first such line is
\* returned, unless the title is non-empty and the line, lower-cased, starts
\* with the trimmed lower-cased title, in which case the next such line (or
\* the empty string when there is none) is returned; with no line left the
\* result is the empty string.
C3_SanitizedSummary ==
    sanPc = "done" =>
        LET ls == ProcessedLines(sanText)
        IN  sanResult = FirstUnless(ls, ls # <<>> /\ sanTitle # <<>>
                                        /\ IsPrefix(toLowerCase(Stripped(sanTitle)),
                                                    toLowerCase(ls[1])))

\* a heading line is skipped, the first line repeats the title, the second is returned
C3_Witness ==
    /\ sanPc = "done"
    /\ \E k \in 1..Len(LinesOf(sanText)) :
          Stripped(LinesOf(sanText)[k]) # <<>> /\ Stripped(LinesOf(sanText)[k])[1] = "#"
    /\ Len(ProcessedLines(sanText)) = 2
    /\ sanTitle # <<>>
    /\ toLowerCase(ProcessedLines(sanText)[1]) = toLowerCase(Stripped(sanTitle))
    /\ sanResult = ProcessedLines(sanText)[2]

====
